---- MODULE Spec2Model ----
(***************************************************************************)
(* The streaming relay of batmanchat: the streamChat controller (backend), *)
(* which relays an upstream completion to the client as server-sent events *)
(* and persists the transcript, and the stream reader of the chat client   *)
(* (frontend, handleSendMessage).                                          *)
(*                                                                         *)
(* Text is a sequence of one-character strings; bytes on the wire are      *)
(* one-character strings for ASCII and "0x.." strings for the bytes of a   *)
(* multi-byte UTF-8 code point.                                            *)
(***************************************************************************)
EXTENDS Integers, Sequences, FiniteSets, TLC

\* ------------------------------------------------------------------ bounds
\* Upstream chunks one invocation consumes before the stream must end, when
\* one invocation runs alone and when two run concurrently.
MaxUpstreamChunks == 5
MaxPairChunks == 1

\* Frames before the terminal frame in one response the client reads.
MaxFrames == 2

\* Invocations of streamChat; request 2 arrives no earlier than request 1.
Requests == {1, 2}

\* Calls of handleSendMessage in the chat client.
Sends == {"s1", "s2"}

\* Conversation ids a request may name: "c1" exists, "c404" does not.
ConvIds == {"c1", "c2", "c404"}

\* ------------------------------------------------------------------- text
Whitespace == {" ", "\n", "\t"}

RECURSIVE TrimStart(_)
TrimStart(s) ==
  IF s # <<>> /\ Head(s) \in Whitespace THEN TrimStart(Tail(s)) ELSE s

RECURSIVE TrimEnd(_)
TrimEnd(s) ==
  IF s # <<>> /\ s[Len(s)] \in Whitespace
  THEN TrimEnd(SubSeq(s, 1, Len(s) - 1)) ELSE s

\* String.prototype.trim
Trim(s) == TrimEnd(TrimStart(s))

RECURSIVE Concat(_)
Concat(ss) == IF ss = <<>> THEN <<>> ELSE Head(ss) \o Concat(Tail(ss))

StartsWith(s, p) == Len(s) >= Len(p) /\ SubSeq(s, 1, Len(p)) = p

\* ------------------------------------------------------------------- JSON
\* JSON.stringify of a string value: quote, backslash and newline are escaped.
RECURSIVE EscapeJSON(_)
EscapeJSON(s) ==
  IF s = <<>> THEN <<>>
  ELSE (CASE Head(s) = "\"" -> <<"\\", "\"">>
          [] Head(s) = "\\" -> <<"\\", "\\">>
          [] Head(s) = "\n" -> <<"\\", "n">>
          [] OTHER -> <<Head(s)>>) \o EscapeJSON(Tail(s))

\* The inverse on a string body; ok is FALSE on a bare quote, a bare newline
\* or a dangling backslash, none of which a JSON string body may hold.
RECURSIVE UnescapeJSON(_)
UnescapeJSON(s) ==
  IF s = <<>> THEN [ok |-> TRUE, text |-> <<>>]
  ELSE IF Head(s) = "\\"
    THEN IF Len(s) < 2 \/ s[2] \notin {"\"", "\\", "n"}
         THEN [ok |-> FALSE, text |-> <<>>]
         ELSE LET rest == UnescapeJSON(SubSeq(s, 3, Len(s)))
                  c == IF s[2] = "n" THEN "\n" ELSE s[2]
              IN [ok |-> rest.ok, text |-> <<c>> \o rest.text]
    ELSE IF Head(s) \in {"\"", "\n"}
         THEN [ok |-> FALSE, text |-> <<>>]
         ELSE LET rest == UnescapeJSON(Tail(s))
              IN [ok |-> rest.ok, text |-> <<Head(s)>> \o rest.text]

TokenOpen == <<"{", "\"", "t", "o", "k", "e", "n", "\"", ":", "\"">>
ErrorOpen == <<"{", "\"", "e", "r", "r", "o", "r", "\"", ":", "\"">>
ObjectClose == <<"\"", "}">>

\* JSON.stringify({ token })
StringifyToken(token) == TokenOpen \o EscapeJSON(token) \o ObjectClose

\* JSON.stringify({ error: 'Stream error' })
StreamErrorText == <<"S", "t", "r", "e", "a", "m", " ", "e", "r", "r", "o", "r">>
StringifyError(text) == ErrorOpen \o EscapeJSON(text) \o ObjectClose

EndsWith(s, p) ==
  Len(s) >= Len(p) /\ SubSeq(s, Len(s) - Len(p) + 1, Len(s)) = p

\* JSON.parse on the payloads the wire can carry: an object with one string
\* member parses (hasToken tells whether the member is token); any other
\* text, a proper prefix of an object included, raises a SyntaxError.
ParseJSON(payload) ==
  LET isToken == StartsWith(payload, TokenOpen)
      isError == StartsWith(payload, ErrorOpen)
      closed == Len(payload) >= Len(TokenOpen) + Len(ObjectClose)
                  /\ EndsWith(payload, ObjectClose)
      inner == UnescapeJSON(
                 SubSeq(payload, Len(TokenOpen) + 1, Len(payload) - Len(ObjectClose)))
  IN IF (isToken \/ isError) /\ closed /\ inner.ok
     THEN [ok |-> TRUE, hasToken |-> isToken, text |-> inner.text]
     ELSE [ok |-> FALSE, hasToken |-> FALSE, text |-> <<>>]

\* ---------------------------------------------------------- SSE framing
DataPrefix == <<"d", "a", "t", "a", ":", " ">>
FrameEnd == <<"\n", "\n">>
DoneText == <<"[", "D", "O", "N", "E", "]">>

\* `data: ${JSON.stringify({ token })}\n\n`
SSEToken(token) == DataPrefix \o StringifyToken(token) \o FrameEnd
\* `data: [DONE]\n\n`
SSEDone == DataPrefix \o DoneText \o FrameEnd
\* `data: ${JSON.stringify({ error: 'Stream error' })}\n\n`
SSEError == DataPrefix \o StringifyError(StreamErrorText) \o FrameEnd

\* ------------------------------------------------ the response object (res)
\* An Express response before the handler touches it.
NewRes ==
  [statusCode |-> 200, contentType |-> "none", headersSent |-> FALSE,
   finished |-> FALSE, json |-> "none", body |-> <<>>,
   writeAfterEnd |-> FALSE, headersError |-> FALSE, endCalls |-> 0]

\* res.status(code).json({ message }): sends headers and body and ends the
\* response; on a response whose headers are already sent it raises
\* ERR_HTTP_HEADERS_SENT (headersError).
ResStatusJson(r, code, message) ==
  IF r.headersSent
  THEN [r EXCEPT !.headersError = TRUE]
  ELSE [r EXCEPT !.statusCode = code, !.contentType = "application/json",
                 !.json = message, !.headersSent = TRUE, !.finished = TRUE,
                 !.endCalls = @ + 1]

\* The five res.setHeader calls: headers are staged, not sent.
ResSetSSEHeaders(r) ==
  IF r.headersSent
  THEN [r EXCEPT !.headersError = TRUE]
  ELSE [r EXCEPT !.contentType = "text/event-stream"]

\* Mutation: a write is put in front of what was written before.
ResWritePrepend(r, text) ==
  IF r.finished
  THEN [r EXCEPT !.writeAfterEnd = TRUE]
  ELSE [r EXCEPT !.headersSent = TRUE, !.body = <<text>> \o @]

\* res.write(text): the first write sends the headers; a write on an ended
\* response puts nothing on the wire and reports write-after-end.
ResWrite(r, text) ==
  IF r.finished
  THEN [r EXCEPT !.writeAfterEnd = TRUE]
  ELSE [r EXCEPT !.headersSent = TRUE, !.body = Append(@, text)]

\* res.end(): a second end closes nothing again; endCalls counts the calls.
ResEnd(r) ==
  IF r.finished
  THEN [r EXCEPT !.endCalls = @ + 1]
  ELSE [r EXCEPT !.headersSent = TRUE, !.finished = TRUE, !.endCalls = @ + 1]

\* Mutation: the catch block answers 500 without looking at headersSent.
CatchResNoCheck(r) == ResStatusJson(r, 500, "Internal server error")

\* Mutation: the catch block also writes the end marker after the error event.
CatchResThenDone(r) ==
  IF ~r.headersSent
  THEN ResStatusJson(r, 500, "Internal server error")
  ELSE ResEnd(ResWrite(ResWrite(r, SSEError), SSEDone))

\* The catch block of streamChat.
CatchRes(r) ==
  IF ~r.headersSent
  THEN ResStatusJson(r, 500, "Internal server error")
  ELSE ResEnd(ResWrite(r, SSEError))

\* --------------------------------------------------------- request inputs
\* req.body.message: absent, empty, whitespace only, or text with padding.
Bodies ==
  { [present |-> FALSE, text |-> <<>>],
    [present |-> TRUE, text |-> <<>>],
    [present |-> TRUE, text |-> <<" ", "\n">>],
    [present |-> TRUE, text |-> <<" ", "h", "i", " ">>] }

NoBody == [present |-> FALSE, text |-> <<>>]

\* Mutation: the message is tested without trimming.
MessageRejectedNoTrim(body) == ~body.present \/ body.text = <<>>

\* !message?.trim()
MessageRejected(body) == ~body.present \/ Trim(body.text) = <<>>

\* ------------------------------------------------------- upstream chunks
\* "e'" stands for the two-byte code point U+00E9.
Tokens == { <<"H">>, <<"\"", "e'">> }

\* The shapes of a completion chunk: content carried in choices[0].delta,
\* a delta without content (the finish chunk), a choice without delta, an
\* empty choices list, and a chunk with no choices field.
UpstreamChunks ==
  { [shape |-> "content", content |-> t] : t \in Tokens }
    \cup { [shape |-> "noContent", content |-> <<>>],
           [shape |-> "noDelta", content |-> <<>>],
           [shape |-> "emptyChoices", content |-> <<>>],
           [shape |-> "noChoices", content |-> <<>>] }

\* The text the upstream generated in one chunk.
ChunkText(chunk) == IF chunk.shape = "content" THEN chunk.content ELSE <<>>

\* chunk.choices[0]?.delta?.content || '' : the optional chaining covers a
\* missing choices[0], delta or content; indexing a missing choices field
\* raises a TypeError.
ExtractToken(chunk) ==
  [throws |-> chunk.shape = "noChoices",
   token |-> IF chunk.shape = "content" THEN chunk.content ELSE <<>>]

\* Mutation: the accumulator is assigned, not appended to.
AccumulateOverwrite(full, token) == token

\* fullResponse += token
Accumulate(full, token) == full \o token

\* ------------------------------------------------------ transcript store
DefaultTitle == "New Mission"
GeneratedTitle == "Gotham Night Patrol"

\* req.user._id of the caller, and the owner of another user's conversation.
Caller == "u1"
OtherUser == "u2"

\* buildBatmanSystemPrompt(override)
DefaultSystemPrompt == <<"ALFRED_SYSTEM_PROMPT", "\n\n---\n\n", "BATMAN_LORE">>
buildBatmanSystemPrompt(override) ==
  IF override # <<>> THEN override ELSE DefaultSystemPrompt

\* messageSchema: content is required, and Mongoose's required validator
\* rejects the empty string.
MessageValid(doc) == doc.content # <<>>

MessageDoc(cid, role, content, at, i) ==
  [conversationId |-> cid, role |-> role, content |-> content,
   createdAt |-> at, req |-> i]

\* .sort({ createdAt: 1 })
RECURSIVE SortByCreatedAt(_)
SortByCreatedAt(docs) ==
  IF docs = {} THEN <<>>
  ELSE LET first == CHOOSE d \in docs : \A e \in docs : d.createdAt <= e.createdAt
       IN <<first>> \o SortByCreatedAt(docs \ {first})

\* .select('role content'); req is kept as the history variable of the model
\* that names the invocation which created the turn.
SelectRoleContent(docs) ==
  [k \in 1..Len(docs) |->
     [role |-> docs[k].role, content |-> docs[k].content, req |-> docs[k].req]]

\* Message.find({ conversationId }).sort({ createdAt: 1 }).select('role content')
MessageFind(db, cid) ==
  SelectRoleContent(SortByCreatedAt({d \in db : d.conversationId = cid}))

\* ------------------------------------------------------ the client reader
\* UTF-8: "e'" is the two bytes 0xC3 0xA9, any other character one byte.
RECURSIVE EncodeUTF8(_)
EncodeUTF8(text) ==
  IF text = <<>> THEN <<>>
  ELSE IF Len(text) = 1
    THEN (IF text[1] = "e'" THEN <<"0xC3", "0xA9">> ELSE text)
    ELSE LET half == Len(text) \div 2
         IN EncodeUTF8(SubSeq(text, 1, half))
              \o EncodeUTF8(SubSeq(text, half + 1, Len(text)))

Replacement == "U+FFFD"

\* new TextDecoder().decode(value), without { stream: true }: every call
\* decodes its bytes alone, so a lead byte at the end of the chunk and a
\* continuation byte at its start each decode to U+FFFD.
Decoded(c) == c # "consumed"

Decode(bytes) ==
  LET at(k) ==
        IF bytes[k] = "0xC3"
        THEN IF k < Len(bytes) /\ bytes[k + 1] = "0xA9" THEN "e'" ELSE Replacement
        ELSE IF bytes[k] = "0xA9"
        THEN IF k > 1 /\ bytes[k - 1] = "0xC3" THEN "consumed" ELSE Replacement
        ELSE bytes[k]
  IN SelectSeq([k \in 1..Len(bytes) |-> at(k)], Decoded)

\* chunk.split('\n')
SplitLines(text) ==
  LET breaks == {k \in 1..Len(text) : text[k] = "\n"}
      n == Cardinality(breaks)
      break(j) ==
        IF j = 0 THEN 0
        ELSE IF j = n + 1 THEN Len(text) + 1
        ELSE CHOOSE k \in breaks : Cardinality({m \in breaks : m <= k}) = j
  IN [j \in 1..(n + 1) |-> SubSeq(text, break(j - 1) + 1, break(j) - 1)]

\* String(undefined), what fullResponse += token appends for a missing token.
UndefinedText == <<"u", "n", "d", "e", "f", "i", "n", "e", "d">>

\* The marker recorded when the reader acts on [DONE].
DoneSignal == <<"[DONE]">>

\* The body of the for loop over the lines of one chunk. st holds
\* fullResponse, messages and streamingMessage, and yielded: the tokens and
\* [DONE] markers the reader has acted on, in order.
ProcessLine(st, line, s) ==
  IF ~StartsWith(line, DataPrefix) THEN st
  ELSE LET data == SubSeq(line, Len(DataPrefix) + 1, Len(line))
           parsed == ParseJSON(data)
           token == IF parsed.hasToken THEN parsed.text ELSE UndefinedText
       IN IF data = DoneText
          THEN [st EXCEPT
                  !.messages =
                     Append(@, [role |-> "assistant", content |-> st.full, send |-> s]),
                  !.streaming = <<>>,
                  !.yielded = Append(@, DoneSignal)]
          ELSE IF ~parsed.ok THEN st
          ELSE [st EXCEPT !.full = @ \o token,
                          !.streaming = st.full \o token,
                          !.yielded = Append(@, token)]

RECURSIVE ProcessLines(_, _, _)
ProcessLines(st, lines, s) ==
  IF lines = <<>> THEN st
  ELSE ProcessLines(ProcessLine(st, Head(lines), s), Tail(lines), s)

\* A frame whose payload is not JSON.
SSEMalformed == DataPrefix \o <<"{", "o", "o", "p", "s">> \o FrameEnd

\* The responses a send may read: token frames and malformed frames, then the
\* terminal frame.
ReaderFrames == {SSEToken(t) : t \in Tokens} \cup {SSEMalformed}
Scripts ==
  { fs \o <<last>> :
      fs \in UNION {[1..k -> ReaderFrames] : k \in 0..MaxFrames},
      last \in {SSEDone, SSEError} }

\* ------------------------------------------------------------------ state
VARIABLES
  pc,            \* per request: the await streamChat is suspended at
  reqBody,       \* req.body
  reqConv,       \* req.params.conversationId
  conversation,  \* the document Conversation.findOne returned
  history,       \* the result of Message.find
  openaiMessages,\* the message list sent upstream
  fullResponse,  \* the accumulator of streamChat
  res,           \* the response object
  connected,     \* the client still holds the connection
  delivered,     \* the writes that reached the client
  upText,        \* the text the upstream has generated so far
  upCount,       \* the number of chunks consumed
  upEnded,       \* "no", "normal" or "error"
  failedAt,      \* the await whose rejection entered the catch block
  closedBefore,  \* the requests whose response had ended when this one arrived
  titlePc,       \* autoTitleConversation: "none", "request", "update", then
                 \* "titled", "untitled" or "failed"
  dbMessages,    \* the Message collection
  conversations, \* the Conversation collection
  clock,         \* the createdAt of the next document
  cpc,           \* per send: where handleSendMessage is suspended
  script,        \* the frames of the response the send reads
  wire,          \* the bytes of the response body not yet read
  decoded,       \* the text decoder.decode has returned so far, chunk by chunk
  clientFull,    \* fullResponse of handleSendMessage
  yielded,       \* the tokens and [DONE] markers the reader acted on
  messages,      \* React state of ChatContainer
  streamingMessage

serverVars ==
  <<pc, reqBody, reqConv, conversation, history, openaiMessages, fullResponse,
    res, connected, delivered, upText, upCount, upEnded, failedAt,
    closedBefore, titlePc, dbMessages, conversations, clock>>

clientVars ==
  <<cpc, script, wire, decoded, clientFull, yielded, messages,
    streamingMessage>>

vars == <<serverVars, clientVars>>

NoConversation ==
  [userId |-> "none", title |-> "none", model |-> "none",
   systemPromptOverride |-> <<>>]

\* The Conversation collection: c1 belongs to the caller and is untitled, c2
\* belongs to another user and has been titled.
StoredConversations ==
  [c \in {"c1", "c2"} |->
     [userId |-> IF c = "c1" THEN Caller ELSE OtherUser,
      title |-> IF c = "c1" THEN DefaultTitle ELSE "Rogues Gallery",
      model |-> "gpt-4o-mini", systemPromptOverride |-> <<>>]]

InitHandlers ==
  /\ pc = [i \in Requests |-> "idle"]
  /\ reqBody = [i \in Requests |-> NoBody]
  /\ reqConv = [i \in Requests |-> "none"]
  /\ conversation = [i \in Requests |-> NoConversation]
  /\ history = [i \in Requests |-> <<>>]
  /\ openaiMessages = [i \in Requests |-> <<>>]
  /\ fullResponse = [i \in Requests |-> <<>>]
  /\ res = [i \in Requests |-> NewRes]
  /\ connected = [i \in Requests |-> TRUE]
  /\ delivered = [i \in Requests |-> <<>>]
  /\ upText = [i \in Requests |-> <<>>]
  /\ upCount = [i \in Requests |-> 0]
  /\ upEnded = [i \in Requests |-> "no"]
  /\ failedAt = [i \in Requests |-> "none"]
  /\ closedBefore = [i \in Requests |-> {}]
  /\ titlePc = [i \in Requests |-> "none"]
  /\ conversations = StoredConversations

\* No turn has been stored yet.
InitServer ==
  /\ InitHandlers
  /\ dbMessages = {}
  /\ clock = 1

\* const MAX_HISTORY_MESSAGES = 20, the window of the guide's truncation.
MAX_HISTORY_MESSAGES == 20

\* A conversation of the caller that already holds one turn more than the
\* window: user and assistant turns in alternation, created before any request
\* of the model (req 0).
PriorTurnCount == MAX_HISTORY_MESSAGES + 1
PriorTurns ==
  { MessageDoc("c1", IF k % 2 = 1 THEN "user" ELSE "assistant",
               <<"p">>, k, 0) : k \in 1..PriorTurnCount }

\* The response of request i becomes r; the client receives what was written
\* while it is connected.
SetRes(i, r) ==
  /\ res' = [res EXCEPT ![i] = r]
  /\ delivered' = [delivered EXCEPT ![i] = IF connected[i] THEN r.body ELSE @]

\* A rejected await inside the try block: control enters the catch block.
Catch(i, where) ==
  /\ SetRes(i, CatchRes(res[i]))
  /\ pc' = [pc EXCEPT ![i] = "done"]
  /\ failedAt' = [failedAt EXCEPT ![i] = where]

\* ------------------------------------------------------------- streamChat
\* The request arrives; the message is validated before the try block.
Request(i) ==
  /\ pc[i] = "idle"
  /\ \A j \in Requests : j < i => pc[j] # "idle"
  /\ \E body \in Bodies, cid \in ConvIds :
       /\ reqBody' = [reqBody EXCEPT ![i] = body]
       /\ reqConv' = [reqConv EXCEPT ![i] = cid]
       /\ IF MessageRejected(body)
          THEN /\ SetRes(i, ResStatusJson(res[i], 400, "Message is required"))
               /\ pc' = [pc EXCEPT ![i] = "done"]
          ELSE /\ pc' = [pc EXCEPT ![i] = "findOne"]
               /\ UNCHANGED <<res, delivered>>
  /\ closedBefore' =
       [closedBefore EXCEPT ![i] = {j \in Requests : res[j].finished}]
  /\ UNCHANGED <<conversation, history, openaiMessages, fullResponse,
                 connected, upText, upCount, upEnded, failedAt, titlePc,
                 dbMessages, conversations, clock,
                 clientVars>>

\* await Conversation.findOne({ _id: conversationId }): the filter names the
\* id only, the userId condition being commented out.
FindOne(i) ==
  /\ pc[i] = "findOne"
  /\ \/ /\ reqConv[i] \in DOMAIN conversations
        /\ conversation' = [conversation EXCEPT ![i] = conversations[reqConv[i]]]
        /\ pc' = [pc EXCEPT ![i] = "createUser"]
        /\ UNCHANGED <<res, delivered, failedAt>>
     \/ /\ reqConv[i] \notin DOMAIN conversations
        /\ SetRes(i, ResStatusJson(res[i], 404, "Conversation not found"))
        /\ pc' = [pc EXCEPT ![i] = "done"]
        /\ UNCHANGED <<conversation, failedAt>>
     \/ /\ Catch(i, "findOne")
        /\ UNCHANGED conversation
  /\ UNCHANGED <<reqBody, reqConv, history, openaiMessages, fullResponse,
                 connected, upText, upCount, upEnded, closedBefore, titlePc,
                 dbMessages, conversations, clock,
                 clientVars>>

\* Mutation: the user turn is created a second time.
CreateUserTwice(i) ==
  /\ pc[i] = "createUser"
  /\ LET text == Trim(reqBody[i].text)
     IN dbMessages' = dbMessages \cup
          { MessageDoc(reqConv[i], "user", text, clock, i),
            MessageDoc(reqConv[i], "user", text, clock + 1, i) }
  /\ clock' = clock + 2
  /\ pc' = [pc EXCEPT ![i] = "find"]
  /\ UNCHANGED <<reqBody, reqConv, conversation, history, openaiMessages,
                 fullResponse, res, connected, delivered, upText, upCount,
                 upEnded, failedAt, closedBefore, titlePc, conversations,
                 clientVars>>

\* Mutation: the handler goes on to the history query without the append.
CreateUserSkipped(i) ==
  /\ pc[i] = "createUser"
  /\ pc' = [pc EXCEPT ![i] = "find"]
  /\ UNCHANGED <<reqBody, reqConv, conversation, history, openaiMessages,
                 fullResponse, res, connected, delivered, upText, upCount,
                 upEnded, failedAt, closedBefore, titlePc, dbMessages,
                 conversations, clock,
                 clientVars>>

\* Mutation: a rejected user-turn append is noted and the handler goes on.
CreateUserIgnoreFailure(i) ==
  /\ pc[i] = "createUser"
  /\ LET doc == MessageDoc(reqConv[i], "user", Trim(reqBody[i].text), clock, i)
     IN \/ /\ MessageValid(doc)
           /\ dbMessages' = dbMessages \cup {doc}
           /\ clock' = clock + 1
           /\ UNCHANGED failedAt
        \/ /\ failedAt' = [failedAt EXCEPT ![i] = "createUser"]
           /\ UNCHANGED <<dbMessages, clock>>
  /\ pc' = [pc EXCEPT ![i] = "find"]
  /\ UNCHANGED <<reqBody, reqConv, conversation, history, openaiMessages,
                 fullResponse, res, connected, delivered, upText, upCount,
                 upEnded, closedBefore, titlePc, conversations,
                 clientVars>>

\* await Message.create({ conversationId, role: 'user', content: message.trim() })
CreateUser(i) ==
  /\ pc[i] = "createUser"
  /\ LET doc == MessageDoc(reqConv[i], "user", Trim(reqBody[i].text), clock, i)
     IN \/ /\ MessageValid(doc)
           /\ dbMessages' = dbMessages \cup {doc}
           /\ clock' = clock + 1
           /\ pc' = [pc EXCEPT ![i] = "find"]
           /\ UNCHANGED <<res, delivered, failedAt>>
        \/ /\ Catch(i, "createUser")
           /\ UNCHANGED <<dbMessages, clock>>
  /\ UNCHANGED <<reqBody, reqConv, conversation, history, openaiMessages,
                 fullResponse, connected, upText, upCount, upEnded,
                 closedBefore, titlePc, conversations,
                 clientVars>>

\* await Message.find(...), then the message list and the SSE headers.
FindHistory(i) ==
  /\ pc[i] = "find"
  /\ \/ /\ LET found == MessageFind(dbMessages, reqConv[i])
               systemPrompt ==
                 buildBatmanSystemPrompt(conversation[i].systemPromptOverride)
           IN /\ history' = [history EXCEPT ![i] = found]
              /\ openaiMessages' =
                   [openaiMessages EXCEPT ![i] =
                      <<[role |-> "system", content |-> systemPrompt, req |-> 0]>>
                        \o found]
        /\ SetRes(i, ResSetSSEHeaders(res[i]))
        /\ pc' = [pc EXCEPT ![i] = "open"]
        /\ UNCHANGED failedAt
     \/ /\ Catch(i, "find")
        /\ UNCHANGED <<history, openaiMessages>>
  /\ UNCHANGED <<reqBody, reqConv, conversation, fullResponse, connected,
                 upText, upCount, upEnded, closedBefore, titlePc, dbMessages,
                 conversations, clock,
                 clientVars>>

\* await openai.chat.completions.create({ ..., stream: true })
OpenUpstream(i) ==
  /\ pc[i] = "open"
  /\ \/ /\ pc' = [pc EXCEPT ![i] = "streaming"]
        /\ fullResponse' = [fullResponse EXCEPT ![i] = <<>>]
        /\ UNCHANGED <<res, delivered, failedAt>>
     \/ /\ Catch(i, "open")
        /\ UNCHANGED fullResponse
  /\ UNCHANGED <<reqBody, reqConv, conversation, history, openaiMessages,
                 connected, upText, upCount, upEnded, closedBefore, titlePc,
                 dbMessages, conversations, clock,
                 clientVars>>

\* Mutation: tokens are neither accumulated nor written once the client is gone.
StreamChunkStopOnDisconnect(i, limit) ==
  /\ pc[i] = "streaming"
  /\ upCount[i] < limit
  /\ \E chunk \in UpstreamChunks :
       LET x == ExtractToken(chunk)
       IN /\ upText' = [upText EXCEPT ![i] = @ \o ChunkText(chunk)]
          /\ upCount' = [upCount EXCEPT ![i] = @ + 1]
          /\ IF x.throws
             THEN /\ Catch(i, "extract")
                  /\ UNCHANGED fullResponse
             ELSE IF x.token # <<>> /\ connected[i]
             THEN /\ fullResponse' =
                       [fullResponse EXCEPT ![i] = Accumulate(@, x.token)]
                  /\ SetRes(i, ResWrite(res[i], SSEToken(x.token)))
                  /\ UNCHANGED <<pc, failedAt>>
             ELSE UNCHANGED <<fullResponse, res, delivered, pc, failedAt>>
  /\ UNCHANGED <<reqBody, reqConv, conversation, history, openaiMessages,
                 connected, upEnded, closedBefore, titlePc, dbMessages,
                 conversations, clock,
                 clientVars>>

\* One iteration of for await (const chunk of stream).
StreamChunk(i, limit) ==
  /\ pc[i] = "streaming"
  /\ upCount[i] < limit
  /\ \E chunk \in UpstreamChunks :
       LET x == ExtractToken(chunk)
       IN /\ upText' = [upText EXCEPT ![i] = @ \o ChunkText(chunk)]
          /\ upCount' = [upCount EXCEPT ![i] = @ + 1]
          /\ IF x.throws
             THEN /\ Catch(i, "extract")
                  /\ UNCHANGED fullResponse
             ELSE IF x.token # <<>>
             THEN /\ fullResponse' =
                       [fullResponse EXCEPT ![i] = Accumulate(@, x.token)]
                  /\ SetRes(i, ResWrite(res[i], SSEToken(x.token)))
                  /\ UNCHANGED <<pc, failedAt>>
             ELSE UNCHANGED <<fullResponse, res, delivered, pc, failedAt>>
  /\ UNCHANGED <<reqBody, reqConv, conversation, history, openaiMessages,
                 connected, upEnded, closedBefore, titlePc, dbMessages,
                 conversations, clock,
                 clientVars>>

\* The upstream stream ends: res.write(`data: [DONE]\n\n`); res.end()
StreamEnd(i) ==
  /\ pc[i] = "streaming"
  /\ SetRes(i, ResEnd(ResWrite(res[i], SSEDone)))
  /\ upEnded' = [upEnded EXCEPT ![i] = "normal"]
  /\ pc' = [pc EXCEPT ![i] = "createAssistant"]
  /\ UNCHANGED <<reqBody, reqConv, conversation, history, openaiMessages,
                 fullResponse, connected, upText, upCount, failedAt,
                 closedBefore, titlePc, dbMessages, conversations, clock,
                 clientVars>>

\* Mutation: a failed stream still goes on to persist what was accumulated.
StreamErrorPersist(i) ==
  /\ pc[i] = "streaming"
  /\ SetRes(i, CatchRes(res[i]))
  /\ failedAt' = [failedAt EXCEPT ![i] = "stream"]
  /\ upEnded' = [upEnded EXCEPT ![i] = "error"]
  /\ pc' = [pc EXCEPT ![i] = "createAssistant"]
  /\ UNCHANGED <<reqBody, reqConv, conversation, history, openaiMessages,
                 fullResponse, connected, upText, upCount, closedBefore,
                 titlePc, dbMessages, conversations, clock,
                 clientVars>>

\* The upstream iterator rejects.
StreamError(i) ==
  /\ pc[i] = "streaming"
  /\ Catch(i, "stream")
  /\ upEnded' = [upEnded EXCEPT ![i] = "error"]
  /\ UNCHANGED <<reqBody, reqConv, conversation, history, openaiMessages,
                 fullResponse, connected, upText, upCount, closedBefore,
                 titlePc, dbMessages, conversations, clock,
                 clientVars>>

\* Mutation: the title is requested whatever title the conversation has.
CreateAssistantAlwaysTitles(i) ==
  /\ pc[i] = "createAssistant"
  /\ LET doc == MessageDoc(reqConv[i], "assistant", fullResponse[i], clock, i)
     IN \/ /\ MessageValid(doc)
           /\ dbMessages' = dbMessages \cup {doc}
           /\ clock' = clock + 1
           /\ titlePc' = [titlePc EXCEPT ![i] = "request"]
           /\ pc' = [pc EXCEPT ![i] = "done"]
           /\ UNCHANGED <<res, delivered, failedAt>>
        \/ /\ Catch(i, "createAssistant")
           /\ UNCHANGED <<dbMessages, clock, titlePc>>
  /\ UNCHANGED <<reqBody, reqConv, conversation, history, openaiMessages,
                 fullResponse, connected, upText, upCount, upEnded,
                 closedBefore, conversations,
                 clientVars>>

\* await Message.create({ ..., role: 'assistant', content: fullResponse }),
\* then the title check on the document findOne returned.
CreateAssistant(i) ==
  /\ pc[i] = "createAssistant"
  /\ LET doc == MessageDoc(reqConv[i], "assistant", fullResponse[i], clock, i)
     IN \/ /\ MessageValid(doc)
           /\ dbMessages' = dbMessages \cup {doc}
           /\ clock' = clock + 1
           /\ titlePc' =
                [titlePc EXCEPT ![i] =
                   IF conversation[i].title = DefaultTitle THEN "request" ELSE @]
           /\ pc' = [pc EXCEPT ![i] = "done"]
           /\ UNCHANGED <<res, delivered, failedAt>>
        \/ /\ Catch(i, "createAssistant")
           /\ UNCHANGED <<dbMessages, clock, titlePc>>
  /\ UNCHANGED <<reqBody, reqConv, conversation, history, openaiMessages,
                 fullResponse, connected, upText, upCount, upEnded,
                 closedBefore, conversations,
                 clientVars>>

\* The client aborts the connection; streamChat registers no close handler.
ClientDisconnect(i) ==
  /\ connected[i]
  /\ pc[i] \in {"open", "streaming"}
  /\ connected' = [connected EXCEPT ![i] = FALSE]
  /\ UNCHANGED <<pc, reqBody, reqConv, conversation, history, openaiMessages,
                 fullResponse, res, delivered, upText, upCount, upEnded,
                 failedAt, closedBefore, titlePc, dbMessages, conversations,
                 clock,
                 clientVars>>

\* ---------------------------------------------------- autoTitleConversation
\* Mutation: a rejected title completion reaches the catch block of streamChat.
TitleRespondSurfaces(i) ==
  /\ titlePc[i] = "request"
  /\ \E outcome \in {"title", "empty", "reject"} :
       /\ titlePc' =
            [titlePc EXCEPT ![i] =
               IF outcome = "title" THEN "update"
               ELSE IF outcome = "empty" THEN "untitled" ELSE "failed"]
       /\ IF outcome = "reject"
          THEN Catch(i, "title")
          ELSE UNCHANGED <<pc, res, delivered, failedAt>>
  /\ UNCHANGED <<reqBody, reqConv, conversation, history, openaiMessages,
                 fullResponse, connected, upText, upCount, upEnded,
                 closedBefore, dbMessages, conversations, clock,
                 clientVars>>

\* The title completion resolves with a title, with no title, or rejects.
TitleRespond(i) ==
  /\ titlePc[i] = "request"
  /\ \E outcome \in {"title", "empty", "reject"} :
       titlePc' =
         [titlePc EXCEPT ![i] =
            IF outcome = "title" THEN "update"
            ELSE IF outcome = "empty" THEN "untitled" ELSE "failed"]
  /\ UNCHANGED <<pc, reqBody, reqConv, conversation, history, openaiMessages,
                 fullResponse, res, connected, delivered, upText, upCount,
                 upEnded, failedAt, closedBefore, dbMessages, conversations,
                 clock,
                 clientVars>>

\* await conversation.updateOne({ title }); a rejection is swallowed.
TitleUpdate(i) ==
  /\ titlePc[i] = "update"
  /\ \/ /\ conversations' =
             [conversations EXCEPT ![reqConv[i]].title = GeneratedTitle]
        /\ titlePc' = [titlePc EXCEPT ![i] = "titled"]
     \/ /\ titlePc' = [titlePc EXCEPT ![i] = "failed"]
        /\ UNCHANGED conversations
  /\ UNCHANGED <<pc, reqBody, reqConv, conversation, history, openaiMessages,
                 fullResponse, res, connected, delivered, upText, upCount,
                 upEnded, failedAt, closedBefore, dbMessages, clock,
                 clientVars>>

\* One step of request i, whose upstream emits at most limit chunks.
Step(i, limit) ==
  \/ Request(i)
  \/ FindOne(i)
  \/ CreateUser(i)
  \/ FindHistory(i)
  \/ OpenUpstream(i)
  \/ StreamChunk(i, limit)
  \/ StreamEnd(i)
  \/ StreamError(i)
  \/ CreateAssistant(i)
  \/ ClientDisconnect(i)
  \/ TitleRespond(i)
  \/ TitleUpdate(i)

InitClient ==
  /\ cpc = [s \in Sends |-> "idle"]
  /\ script = [s \in Sends |-> <<>>]
  /\ wire = [s \in Sends |-> <<>>]
  /\ decoded = [s \in Sends |-> <<>>]
  /\ clientFull = [s \in Sends |-> <<>>]
  /\ yielded = [s \in Sends |-> <<>>]
  /\ messages = <<>>
  /\ streamingMessage = <<>>

Init == InitServer /\ InitClient

\* One invocation of streamChat.
Next == Step(1, MaxUpstreamChunks)

Spec == Init /\ [][Next]_vars

\* What makes one invocation move on. The database calls and the completion
\* request settle, resolved or rejected, and the handler then runs to its next
\* await. streamChat sets no timer and passes no timeout or abort signal, so
\* nothing obliges the opened stream to deliver its next chunk, to end or to
\* fail: StreamChunk, StreamEnd and StreamError get no fairness.
Fairness ==
  /\ WF_vars(Request(1))
  /\ WF_vars(FindOne(1))
  /\ WF_vars(CreateUser(1))
  /\ WF_vars(FindHistory(1))
  /\ WF_vars(OpenUpstream(1))
  /\ WF_vars(CreateAssistant(1))
  /\ WF_vars(TitleRespond(1))
  /\ WF_vars(TitleUpdate(1))

SpecLive == Init /\ [][Next]_vars /\ Fairness

\* One invocation on a store that holds a long conversation.
InitLong ==
  /\ InitHandlers
  /\ dbMessages = PriorTurns
  /\ clock = PriorTurnCount + 1
  /\ InitClient

SpecLong == InitLong /\ [][Next]_vars

\* Two invocations, interleaved at their awaits.
NextPair == \E i \in Requests : Step(i, MaxPairChunks)

SpecPair == Init /\ [][NextPair]_vars

\* ------------------------------------------------------ handleSendMessage
\* Chatinput passes the trimmed, non-empty input text.
SendTexts == { <<"h", "i">> }

\* The user message is shown, the streaming bubble cleared, fetch awaited.
HandleSendMessage(s) ==
  /\ cpc[s] = "idle"
  /\ \E text \in SendTexts :
       messages' = Append(messages, [role |-> "user", content |-> text, send |-> s])
  /\ streamingMessage' = <<>>
  /\ cpc' = [cpc EXCEPT ![s] = "fetch"]
  /\ UNCHANGED <<script, wire, decoded, clientFull, yielded>>
  /\ UNCHANGED serverVars

\* fetch resolves: the response body is the bytes of the frames sent, one of
\* the given responses.
FetchResolve(s, scripts) ==
  /\ cpc[s] = "fetch"
  /\ \E frames \in scripts :
       /\ script' = [script EXCEPT ![s] = frames]
       /\ wire' = [wire EXCEPT ![s] = EncodeUTF8(Concat(frames))]
  /\ clientFull' = [clientFull EXCEPT ![s] = <<>>]
  /\ cpc' = [cpc EXCEPT ![s] = "reading"]
  /\ UNCHANGED <<decoded, yielded, messages, streamingMessage>>
  /\ UNCHANGED serverVars

\* reader.read() resolves with the next chunk: any non-empty prefix of the
\* bytes in flight. The chunk is decoded, split into lines and processed.
ReadChunk(s) ==
  /\ cpc[s] = "reading"
  /\ \E n \in 1..Len(wire[s]) :
       LET chunk == Decode(SubSeq(wire[s], 1, n))
           st == ProcessLines(
                   [full |-> clientFull[s], messages |-> messages,
                    streaming |-> streamingMessage, yielded |-> yielded[s]],
                   SplitLines(chunk), s)
       IN /\ wire' = [wire EXCEPT ![s] = SubSeq(@, n + 1, Len(@))]
          /\ decoded' = [decoded EXCEPT ![s] = @ \o chunk]
          /\ clientFull' = [clientFull EXCEPT ![s] = st.full]
          /\ yielded' = [yielded EXCEPT ![s] = st.yielded]
          /\ messages' = st.messages
          /\ streamingMessage' = st.streaming
  /\ UNCHANGED <<cpc, script>>
  /\ UNCHANGED serverVars

\* reader.read() resolves with done: the loop breaks.
ReadDone(s) ==
  /\ cpc[s] = "reading"
  /\ wire[s] = <<>>
  /\ cpc' = [cpc EXCEPT ![s] = "done"]
  /\ UNCHANGED <<script, wire, decoded, clientFull, yielded, messages,
                 streamingMessage>>
  /\ UNCHANGED serverVars

ClientStep(s, scripts) ==
  \/ HandleSendMessage(s)
  \/ FetchResolve(s, scripts)
  \/ ReadChunk(s)
  \/ ReadDone(s)

\* One send reading its response, split into chunks in every way.
NextReader == ClientStep("s1", Scripts)

SpecReader == Init /\ [][NextReader]_vars

\* The reply of one token, completed.
ShortScripts == { <<SSEToken(<<"H">>), SSEDone>> }

\* Two calls of handleSendMessage, interleaved at their awaits: Chatinput
\* stays enabled while a response is streaming.
NextSends == \E s \in Sends : ClientStep(s, ShortScripts)

SpecSends == Init /\ [][NextSends]_vars

\* ================================================================= claims
\* The turns request i appended with the given role.
TurnsOf(i, role) == {d \in dbMessages : d.req = i /\ d.role = role}

\* The payload of one res.write: the text between "data: " and the blank line.
WritePayload(w) == SubSeq(w, Len(DataPrefix) + 1, Len(w) - Len(FrameEnd))

IsFrame(w) == StartsWith(w, DataPrefix) /\ EndsWith(w, FrameEnd)

IsTokenEvent(w) ==
  IsFrame(w) /\ ParseJSON(WritePayload(w)).ok /\ ParseJSON(WritePayload(w)).hasToken

IsDoneEvent(w) == IsFrame(w) /\ WritePayload(w) = DoneText

IsErrorEvent(w) ==
  IsFrame(w) /\ ParseJSON(WritePayload(w)).ok /\ ~ParseJSON(WritePayload(w)).hasToken

IsTerminalEvent(w) == IsDoneEvent(w) \/ IsErrorEvent(w)

\* The token fragments carried by the token events of a response body, in order.
RECURSIVE TokensWritten(_)
TokensWritten(body) ==
  IF body = <<>> THEN <<>>
  ELSE (IF IsTokenEvent(Head(body))
        THEN <<ParseJSON(WritePayload(Head(body))).text>> ELSE <<>>)
       \o TokensWritten(Tail(body))

\* C2. Concatenation law: the content of every persisted assistant turn is the
\* in-order concatenation of the token fragments its invocation wrote to the
\* client as token events.
C2_ConcatenationLaw ==
  \A d \in dbMessages :
    d.role = "assistant" => d.content = Concat(TokensWritten(res[d.req].body))

\* A completed invocation that wrote three token events, not all equal.
C2_Witness ==
  \E d \in dbMessages :
    /\ d.role = "assistant"
    /\ pc[d.req] = "done"
    /\ failedAt[d.req] = "none"
    /\ LET ts == TokensWritten(res[d.req].body)
       IN Len(ts) = 3 /\ ts[1] # ts[2] /\ ts[2] # ts[3]

\* The invocation got past validation and the conversation lookup and its
\* user-turn append has run without being rejected.
UserTurnAppendRan(i) ==
  /\ pc[i] \notin {"idle", "findOne", "createUser"}
  /\ res[i].statusCode \notin {400, 404}
  /\ failedAt[i] \notin {"findOne", "createUser"}

\* C3. Exactly one user turn per invocation: once an invocation has passed
\* validation and lookup and appended its user turn, the transcript holds
\* exactly one user turn of that invocation, whatever happened afterwards; no
\* invocation ever has more than one.
C3_ExactlyOneUserTurn ==
  \A i \in Requests :
    /\ Cardinality(TurnsOf(i, "user")) <= 1
    /\ UserTurnAppendRan(i) => Cardinality(TurnsOf(i, "user")) = 1

\* An invocation whose assistant-turn append failed after a disconnect, still
\* holding its one user turn.
C3_Witness ==
  \E i \in Requests :
    /\ pc[i] = "done"
    /\ failedAt[i] = "createAssistant"
    /\ ~connected[i]
    /\ Cardinality(TurnsOf(i, "user")) = 1

\* The body is missing, empty or made of whitespace only.
BlankBody(body) ==
  ~body.present \/ \A k \in 1..Len(body.text) : body.text[k] \in Whitespace

\* C5. A request whose message is missing, empty or whitespace-only is answered
\* 400 with a JSON message; no turn is persisted for it, no upstream call is
\* made and no event-stream byte is written.
C5_BlankMessageRejected ==
  \A i \in Requests :
    (pc[i] # "idle" /\ BlankBody(reqBody[i])) =>
      /\ pc[i] = "done"
      /\ res[i].statusCode = 400
      /\ res[i].contentType = "application/json"
      /\ res[i].json = "Message is required"
      /\ res[i].finished
      /\ res[i].body = <<>>
      /\ delivered[i] = <<>>
      /\ TurnsOf(i, "user") \cup TurnsOf(i, "assistant") = {}
      /\ openaiMessages[i] = <<>>
      /\ upCount[i] = 0

\* A whitespace-only message was rejected.
C5_Witness ==
  \E i \in Requests :
    /\ pc[i] = "done"
    /\ reqBody[i].present
    /\ reqBody[i].text # <<>>
    /\ BlankBody(reqBody[i])
    /\ res[i].statusCode = 400

\* C6. Disconnect: when the client is gone, the assistant turn that is
\* persisted holds the text of every fragment the upstream generated, not
\* only of those that were delivered.
C6_DisconnectKeepsAllFragments ==
  \A d \in dbMessages :
    (d.role = "assistant" /\ ~connected[d.req]) => d.content = upText[d.req]

\* The client received 2 of the 5 fragments and the turn was persisted.
C6_Witness ==
  \E d \in dbMessages :
    /\ d.role = "assistant"
    /\ ~connected[d.req]
    /\ Len(TokensWritten(delivered[d.req])) = 2
    /\ Len(TokensWritten(res[d.req].body)) = 5

C10_AssistantTurnAtMostOnce ==
  \A i \in Requests :
    /\ Cardinality(TurnsOf(i, "assistant")) <= 1
    /\ TurnsOf(i, "assistant") # {} => upEnded[i] = "normal"
    /\ (upEnded[i] = "error" \/ failedAt[i] \in {"open", "stream", "extract"}) =>
         TurnsOf(i, "assistant") = {}

\* A failed stream that had accumulated text, and no assistant turn.
C10_Witness ==
  \E i \in Requests :
    /\ pc[i] = "done"
    /\ upEnded[i] = "error"
    /\ fullResponse[i] # <<>>
    /\ TurnsOf(i, "assistant") = {}

\* The response is N token frames followed by [DONE].
WellFormedScript(fs) ==
  /\ fs # <<>>
  /\ fs[Len(fs)] = SSEDone
  /\ \A k \in 1..(Len(fs) - 1) : IsTokenEvent(fs[k])

\* C1. Chunk-boundary independence: for a response of N well-formed frames
\* followed by [DONE], however its bytes were split into chunks, the reader
\* has yielded exactly the N tokens in order and then the terminate signal
\* when the stream is drained.
C1_ChunkBoundaryIndependence ==
  \A s \in Sends :
    (cpc[s] = "done" /\ WellFormedScript(script[s])) =>
      yielded[s] = TokensWritten(script[s]) \o <<DoneSignal>>

\* The response holds a malformed frame before a well-formed one and ends
\* with [DONE].
HasMalformedThenToken(fs) ==
  /\ fs # <<>>
  /\ fs[Len(fs)] = SSEDone
  /\ \E j, k \in 1..Len(fs) : j < k /\ fs[j] = SSEMalformed /\ IsTokenEvent(fs[k])

\* C7. Malformed frame resilience: a frame whose payload is not JSON is
\* skipped and the stream goes on; every well-formed frame of the response
\* is processed and its token delivered, and [DONE] is acted on.
C7_MalformedFrameSkipped ==
  \A s \in Sends :
    (cpc[s] = "done" /\ HasMalformedThenToken(script[s])) =>
      yielded[s] = TokensWritten(script[s]) \o <<DoneSignal>>

\* Request j has loaded its history.
HistoryLoaded(j) == openaiMessages[j] # <<>>

\* C4. Sequential invocations: when request j arrives after the response of
\* request i on the same conversation ended with [DONE] (i relayed a
\* non-empty reply), the history j loads holds the user turn and then the
\* assistant turn of i.
C4_SequentialHistory ==
  \A j \in Requests :
    \A i \in closedBefore[j] :
      (HistoryLoaded(j) /\ upEnded[i] = "normal" /\ fullResponse[i] # <<>>
         /\ reqConv[i] = reqConv[j]) =>
        \E p, q \in 1..Len(history[j]) :
          /\ p < q
          /\ history[j][p].req = i /\ history[j][p].role = "user"
          /\ history[j][q].req = i /\ history[j][q].role = "assistant"

\* The turns of one conversation created strictly between two instants.
TurnsBetween(cid, from, to) ==
  {d \in dbMessages :
     d.conversationId = cid /\ from < d.createdAt /\ d.createdAt < to}

\* C11. Causal order under every interleaving: the user turn of a request is
\* appended before its assistant turn, and no turn of another request on the
\* same conversation lies between the two.
C11_CausalOrder ==
  \A u, a \in dbMessages :
    (u.req = a.req /\ u.role = "user" /\ a.role = "assistant") =>
      /\ u.createdAt < a.createdAt
      /\ \A d \in TurnsBetween(u.conversationId, u.createdAt, a.createdAt) :
           d.req = u.req

\* The request passed validation and names a conversation that is missing or
\* belongs to another user, and the lookup itself did not fail.
NamesForeignConversation(i) ==
  /\ pc[i] \notin {"idle", "findOne"}
  /\ ~BlankBody(reqBody[i])
  /\ failedAt[i] # "findOne"
  /\ \/ reqConv[i] \notin DOMAIN conversations
     \/ conversations[reqConv[i]].userId # Caller

\* C12. A request naming a conversation that does not exist or is not owned
\* by the caller is answered 404 with a JSON message; it appends no turn and
\* makes no upstream call.
C12_NotFound ==
  \A i \in Requests :
    NamesForeignConversation(i) =>
      /\ pc[i] = "done"
      /\ res[i].statusCode = 404
      /\ res[i].contentType = "application/json"
      /\ res[i].json = "Conversation not found"
      /\ res[i].body = <<>>
      /\ TurnsOf(i, "user") \cup TurnsOf(i, "assistant") = {}
      /\ openaiMessages[i] = <<>>
      /\ upCount[i] = 0

\* C13. When the append of the user turn fails the invocation is over: the
\* client has 500 with a JSON message, no event-stream byte was written, no
\* upstream request was built or made, and the invocation left no turn.
C13_UserAppendFailureAborts ==
  \A i \in Requests :
    failedAt[i] = "createUser" =>
      /\ pc[i] = "done"
      /\ res[i].statusCode = 500
      /\ res[i].contentType = "application/json"
      /\ res[i].json = "Internal server error"
      /\ res[i].finished
      /\ res[i].body = <<>>
      /\ delivered[i] = <<>>
      /\ openaiMessages[i] = <<>>
      /\ upCount[i] = 0
      /\ upEnded[i] = "no"
      /\ TurnsOf(i, "user") \cup TurnsOf(i, "assistant") = {}

\* The user-turn append of a request on the caller's conversation was rejected.
C13_Witness ==
  \E i \in Requests :
    /\ failedAt[i] = "createUser"
    /\ reqConv[i] = "c1"
    /\ res[i].statusCode = 500

\* C14. When the assistant-turn append of a non-empty reply fails after [DONE]
\* was written and the response ended, the response is left as it was: no
\* further write is attempted on it, no error is raised on it, and its status
\* and body are those of the completed stream.
C14_AssistantAppendFailureOnlyLogged ==
  \A i \in Requests :
    (failedAt[i] = "createAssistant" /\ fullResponse[i] # <<>>) =>
      /\ res[i].statusCode = 200
      /\ res[i].finished
      /\ IsDoneEvent(res[i].body[Len(res[i].body)])
      /\ ~res[i].writeAfterEnd
      /\ ~res[i].headersError

\* C15. A failing auto-title step, the title completion or the title update,
\* changes neither the response of the invocation nor what the client
\* received nor the persisted turns, and does not put the invocation in its
\* catch block.
C15_AutoTitleFailureSwallowed ==
  [][\A i \in Requests :
       (titlePc[i] \in {"request", "update"} /\ titlePc'[i] = "failed") =>
         /\ res' = res
         /\ delivered' = delivered
         /\ dbMessages' = dbMessages
         /\ pc' = pc
         /\ failedAt' = failedAt]_vars

\* Auto-titling failed after a completed invocation: the response is the
\* completed stream, both turns are stored and the title is unchanged.
C15_Witness ==
  \E i \in Requests :
    /\ titlePc[i] = "failed"
    /\ pc[i] = "done"
    /\ failedAt[i] = "none"
    /\ IsDoneEvent(res[i].body[Len(res[i].body)])
    /\ Cardinality(TurnsOf(i, "user") \cup TurnsOf(i, "assistant")) = 2
    /\ conversations[reqConv[i]].title = DefaultTitle

\* A token the reader took out of a token event.
IsReceivedToken(y) == y # DoneSignal /\ y # UndefinedText

\* The assistant messages a send has committed.
Committed(s) ==
  SelectSeq(messages, LAMBDA m : m.role = "assistant" /\ m.send = s)

\* C16. Client commit on [DONE]: until the reader has acted on [DONE],
\* streamingMessage is the concatenation of the tokens received so far and no
\* assistant message is committed; once it has, exactly one assistant message
\* is committed, its content the concatenation of all tokens received, and
\* streamingMessage is empty.
C16_ClientCommitOnDone ==
  \A s \in Sends :
    cpc[s] \in {"reading", "done"} =>
      LET received == Concat(SelectSeq(yielded[s], IsReceivedToken))
          sawDone == \E k \in 1..Len(yielded[s]) : yielded[s][k] = DoneSignal
      IN IF sawDone
         THEN /\ Len(Committed(s)) = 1
              /\ Committed(s)[1].content = received
              /\ streamingMessage = <<>>
         ELSE /\ Committed(s) = <<>>
              /\ streamingMessage = received

\* The invocation has issued its upstream call, whatever came of it.
UpstreamCallIssued(i) ==
  \/ pc[i] \in {"open", "streaming", "createAssistant"}
  \/ failedAt[i] \in {"open", "stream", "extract", "createAssistant"}
  \/ upEnded[i] # "no"

\* C17. In every invocation that reaches the upstream call the user turn is
\* already stored, with the trimmed message as content, and is part of the
\* message list sent upstream; it is still stored when the upstream call or
\* the stream has failed.
C17_UserTurnBeforeUpstream ==
  \A i \in Requests :
    UpstreamCallIssued(i) =>
      /\ \E d \in TurnsOf(i, "user") : d.content = Trim(reqBody[i].text)
      /\ \E k \in 1..Len(openaiMessages[i]) :
           /\ openaiMessages[i][k].req = i
           /\ openaiMessages[i][k].role = "user"

\* The upstream call was rejected before any byte was written and the user
\* turn is in the transcript.
C17_Witness ==
  \E i \in Requests :
    /\ pc[i] = "done"
    /\ failedAt[i] = "open"
    /\ res[i].statusCode = 500
    /\ TurnsOf(i, "user") # {}

C19_NoWritesAfterDisconnect ==
  \A i \in Requests :
    ~connected[i] =>
      Len(TokensWritten(res[i].body)) <= Len(TokensWritten(delivered[i])) + 1

\* C20. Bounded timeout: an invocation waiting for the upstream, for the
\* stream to open or for its next chunk or its end, does not wait forever; it
\* eventually leaves the wait, by the upstream's answer or by a timeout
\* failure.
C20_BoundedTimeout ==
  \A i \in Requests :
    (pc[i] \in {"open", "streaming"}) ~> (pc[i] \in {"createAssistant", "done"})

\* C21. Token extraction never raises: whatever the shape of the upstream
\* payload, no invocation leaves its stream because the extraction threw.
C21_ExtractorNeverRaises ==
  \A i \in Requests : failedAt[i] # "extract"

\* C22. For every split of the response bytes into chunks, a split inside a
\* multi-byte code point included, the text the reader has decoded when the
\* stream is drained is the decoding of the unsplit byte stream.
C22_SplitCodePointPreserved ==
  \A s \in Sends :
    cpc[s] = "done" => decoded[s] = Decode(EncodeUTF8(Concat(script[s])))

\* The elements of a message list between the system prompt and the last one.
SentPriorTurns(list) == SubSeq(list, 2, Len(list) - 1)

IsSuffix(short, long) ==
  /\ Len(short) <= Len(long)
  /\ short = SubSeq(long, Len(long) - Len(short) + 1, Len(long))

\* C23. Bounded context window: between the system prompt and the new user
\* turn the message list sent upstream holds at most MAX_HISTORY_MESSAGES
\* prior turns, and they are the most recent prior turns in their order.
C23_BoundedContextWindow ==
  \A i \in Requests :
    HistoryLoaded(i) =>
      /\ Len(SentPriorTurns(openaiMessages[i])) <= MAX_HISTORY_MESSAGES
      /\ IsSuffix(SentPriorTurns(openaiMessages[i]),
                  SubSeq(history[i], 1, Len(history[i]) - 1))

\* C24. The message list sent upstream starts with the system prompt, goes on
\* with the turns in creation order, and ends with the new trimmed user
\* message of the invocation, which is in the list exactly once; for every
\* invocation, concurrent ones included.
C24_MessageListShape ==
  \A i \in Requests :
    HistoryLoaded(i) =>
      LET list == openaiMessages[i]
      IN /\ list[1].role = "system"
         /\ list[1].content =
              buildBatmanSystemPrompt(conversation[i].systemPromptOverride)
         /\ Tail(list) = history[i]
         /\ list[Len(list)] =
              [role |-> "user", content |-> Trim(reqBody[i].text), req |-> i]
         /\ Cardinality({k \in 1..Len(list) : list[k].req = i}) = 1

C26_EmptyReplyPersisted ==
  \A i \in Requests :
    (pc[i] = "done" /\ upEnded[i] = "normal" /\ upText[i] = <<>>) =>
      /\ res[i].body = <<SSEDone>>
      /\ ~res[i].writeAfterEnd
      /\ \E d \in TurnsOf(i, "assistant") :
           /\ TurnsOf(i, "assistant") = {d}
           /\ d.content = <<>>

\* C27. An invocation that is over has closed its response, and the response
\* was ended exactly once, never twice.
C27_ClosedExactlyOnce ==
  \A i \in Requests :
    /\ res[i].endCalls <= 1
    /\ pc[i] = "done" => (res[i].finished /\ res[i].endCalls = 1)

\* C28. The reply text the reader accumulates holds only text of token
\* events: fullResponse is the concatenation of the tokens received, and
\* streamingMessage is that text or empty, whatever events were received.
C28_ErrorEventLeavesReply ==
  \A s \in Sends :
    LET received == Concat(SelectSeq(yielded[s], IsReceivedToken))
    IN /\ clientFull[s] = received
       /\ cpc[s] \in {"reading", "done"} => streamingMessage \in {<<>>, received}

\* C29. In the messages list every assistant message directly follows the
\* user message of the send that produced it, however the sends interleave.
C29_AssistantFollowsItsUser ==
  \A k \in 1..Len(messages) :
    messages[k].role = "assistant" =>
      /\ k > 1
      /\ messages[k - 1].role = "user"
      /\ messages[k - 1].send = messages[k].send

\* C30. On one conversation the auto-title request is issued by at most one
\* invocation, whether the invocations follow each other or overlap.
C30_AutoTitleAtMostOnce ==
  \A c \in ConvIds :
    Cardinality({i \in Requests : reqConv[i] = c /\ titlePc[i] # "none"}) <= 1

====
